---- MODULE Spec2Model ----
(***************************************************************************)
(* Model of the WooCommerce daily order report job.                        *)
(*                                                                         *)
(*   - ExcelReporter.create_excel_report (src/excel_reporter.py): template *)
(*     set-up, per-order normalisation, template save, main report.        *)
(*   - the script of src/main.py: paginated fetch, its own report builder, *)
(*     e-mail step, top-level exception handler.                           *)
(*                                                                         *)
(* Text is a sequence of one-character strings, so that joining lines and  *)
(* splitting them again are real operations.  Money is an exact rational   *)
(* [n, d]; the floats of the code agree with it up to rounding error.      *)
(***************************************************************************)
EXTENDS Integers, Sequences, FiniteSets, TLC

\* ---------------------------------------------------------------- bounds
MaxOrders == 2
MaxRuns == 2
MaxItems == 2
MaxRefunds == 2
MaxMeta == 2
MaxTicks == 1

\* ------------------------------------------------------ program constants
NoVar == -1
NoFile == -1
BadDate == 0
START_ROW_BODY == 2
VAT_RATE == 10
NL == "\n"
\* the divisor 1.10 of the tax split
TaxFactor == [n |-> 11, d |-> 10]

\* ---------------------------------------------------------------- numbers
RECURSIVE Gcd(_, _)
Gcd(a, b) == IF b = 0 THEN a ELSE Gcd(b, a % b)

Abs(x) == IF x < 0 THEN -x ELSE x

\* the rational n/d in lowest terms, d > 0
Rat(n, d) ==
    LET g == Gcd(Abs(n), Abs(d))
        s == IF d < 0 THEN -1 ELSE 1
    IN  [n |-> (s * n) \div g, d |-> (s * d) \div g]

RZero == Rat(0, 1)
RInt(k) == Rat(k, 1)
RAdd(x, y) == Rat(x.n * y.d + y.n * x.d, x.d * y.d)
RSub(x, y) == Rat(x.n * y.d - y.n * x.d, x.d * y.d)
RMul(x, y) == Rat(x.n * y.n, x.d * y.d)
RDiv(x, y) == Rat(x.n * y.d, x.d * y.n)

\* Python round() and the format spec '.0f': nearest integer, ties to even
Round(x) ==
    LET f == x.n \div x.d
        r == 2 * (x.n - f * x.d)
    IN  IF r < x.d THEN f
        ELSE IF r > x.d THEN f + 1
        ELSE IF f % 2 = 0 THEN f ELSE f + 1

\* ------------------------------------------------------------------- text
DigitChars == <<"0", "1", "2", "3", "4", "5", "6", "7", "8", "9">>

Digit(k) == <<DigitChars[k + 1]>>

RECURSIVE Digits(_)
Digits(n) == IF n < 10 THEN Digit(n) ELSE Digits(n \div 10) \o Digit(n % 10)

\* str(n)
Str(n) == IF n < 0 THEN <<"-">> \o Digits(-n) ELSE Digits(n)

RECURSIVE Group3(_)
Group3(ds) ==
    IF Len(ds) <= 3 THEN ds
    ELSE Group3(SubSeq(ds, 1, Len(ds) - 3)) \o <<",">> \o SubSeq(ds, Len(ds) - 2, Len(ds))

\* f"{x:,.0f}"
FormatMoney(x) ==
    LET k == Round(x)
    IN  IF k < 0 THEN <<"-">> \o Group3(Digits(-k)) ELSE Group3(Digits(k))

\* "\n".join(parts)
RECURSIVE JoinLines(_)
JoinLines(parts) ==
    IF parts = <<>> THEN <<>>
    ELSE IF Len(parts) = 1 THEN parts[1]
    ELSE parts[1] \o <<NL>> \o JoinLines(Tail(parts))

\* str.split('\n'), from a current line cur
RECURSIVE SplitLines(_, _)
SplitLines(txt, cur) ==
    LET breaks == {k \in 1..Len(txt) : txt[k] = NL}
        first == CHOOSE k \in breaks : \A j \in breaks : k <= j
    IN  IF breaks = {} THEN <<cur \o txt>>
        ELSE <<cur \o SubSeq(txt, 1, first - 1)>>
             \o SplitLines(SubSeq(txt, first + 1, Len(txt)), <<>>)

\* ----------------------------------------------------------------- orders
\* a lookup without the default
VariationRaw(rec) == rec.variation_id

\* dict.get('variation_id', 0)
VariationOr0(rec) == IF rec.variation_id = NoVar THEN 0 ELSE rec.variation_id

\* next((meta['value'] for meta in meta_data if meta['key'] in keys), default)
RECURSIVE MetaValue(_, _, _)
MetaValue(meta_data, keys, default) ==
    IF meta_data = <<>> THEN default
    ELSE IF Head(meta_data).key \in keys THEN Head(meta_data).value
    ELSE MetaValue(Tail(meta_data), keys, default)

UserType(order) == MetaValue(order.meta_data, {"_user_type"}, "individual")

\* a lookup that prefers the key _wc_order_number wherever it stands
CustomOrderNumberByKey(order) ==
    MetaValue(order.meta_data, {"_wc_order_number"},
              MetaValue(order.meta_data, {"_order_number"}, order.id))

CustomOrderNumber(order) ==
    MetaValue(order.meta_data, {"_wc_order_number", "_order_number"}, order.id)

\* f"{first_name} {last_name}".strip() with non-blank names, or the company
GetBuyerName(order) ==
    IF UserType(order) = "corporate" THEN order.billing.company
    ELSE order.billing.first_name \o <<" ">> \o order.billing.last_name

\* the inner loops over refund['line_items'] and order['refunds']
RECURSIVE RefundedInLines(_, _)
RefundedInLines(lines, item) ==
    IF lines = <<>> THEN 0
    ELSE (IF Head(lines).product_id = item.product_id
             /\ VariationOr0(Head(lines)) = VariationOr0(item)
          THEN Head(lines).qty ELSE 0)
         + RefundedInLines(Tail(lines), item)

RECURSIVE RefundedQty(_, _)
RefundedQty(refunds, item) ==
    IF refunds = <<>> THEN 0
    ELSE RefundedInLines(Head(refunds).line_items, item)
         + RefundedQty(Tail(refunds), item)

EffectiveQuantity(order, item) == item.quantity - RefundedQty(order.refunds, item)

\* price_no_tax_per_item and vat_per_item of one surviving line item
PriceNoTaxPerItem(item, eq) ==
    IF item.total > 0 THEN RDiv(RDiv(RInt(item.total), TaxFactor), RInt(eq))
    ELSE RZero

\* VAT taken as a tenth of the gross unit price
VatTenthOfGross(item, eq) ==
    IF item.total > 0 THEN RDiv(RDiv(RInt(item.total), RInt(eq)), RInt(VAT_RATE))
    ELSE RZero

VatPerItem(item, eq) ==
    IF item.total > 0
    THEN RSub(RDiv(RInt(item.total), RInt(eq)), PriceNoTaxPerItem(item, eq))
    ELSE RZero

\* one row of the sheet of the template workbook
TemplateRow(order, item, eq, complete) ==
    [description |-> item.name, quantity |-> eq, unit |-> "piece",
     unit_price |-> Round(PriceNoTaxPerItem(item, eq)), discount |-> 0,
     vat_rate |-> VAT_RATE, buyer |-> GetBuyerName(order), complete |-> complete]

\* sheet_body.cell(row=..., ...): rows START_ROW_BODY.. are kept as a sequence
WriteRow(sheet, row, rec) ==
    LET j == row - START_ROW_BODY + 1
    IN  IF j = Len(sheet) + 1 THEN Append(sheet, rec) ELSE [sheet EXCEPT ![j] = rec]

\* a template branch that does not look at the buyer category
TemplateActiveAnyBuyer(wb, sb, order) == wb /\ sb

\* the condition of the template branch of the item loop
TemplateActive(wb, sb, order) == wb /\ sb /\ UserType(order) = "individual"

\* the template branch: the cell writes and the handler of their exception;
\* a failed write leaves an incomplete row where the next row will be written
TemplateWrite(order, item, eq, acc, failed) ==
    [acc EXCEPT !.sheet = WriteRow(acc.sheet, acc.row,
                                   TemplateRow(order, item, eq, ~failed)),
                !.row = IF failed THEN acc.row ELSE acc.row + 1,
                !.write_failed = acc.write_failed \/ failed]

EmptyLists(row, sheet) ==
    [item_names |-> <<>>, item_quantities |-> <<>>, item_prices_no_tax |-> <<>>,
     item_vat_amounts |-> <<>>, total_items_vat |-> RZero,
     total_items_price_no_tax |-> RZero, row |-> row, sheet |-> sheet,
     write_failed |-> FALSE, raised |-> FALSE]

\* the appends and running totals of one surviving item
AppendItem(item, eq, acc) ==
    LET pre == PriceNoTaxPerItem(item, eq)
        vat == VatPerItem(item, eq)
    IN  [acc EXCEPT
           !.item_names = Append(@, item.name),
           !.item_quantities = Append(@, Str(eq)),
           !.item_prices_no_tax = Append(@, FormatMoney(RMul(pre, RInt(eq)))),
           !.item_vat_amounts = Append(@, FormatMoney(RMul(vat, RInt(eq)))),
           !.total_items_vat = RAdd(@, RMul(vat, RInt(eq))),
           !.total_items_price_no_tax = RAdd(@, RMul(pre, RInt(eq)))]

\* an item loop that lists the name before it drops a refunded item
ItemStepNamesFirst(order, item, k, acc, tpl, wf) ==
    LET eq == EffectiveQuantity(order, item)
    IN  IF ~item.has_name THEN [acc EXCEPT !.raised = TRUE]
        ELSE IF eq <= 0 THEN [acc EXCEPT !.item_names = Append(@, item.name)]
        ELSE IF tpl THEN TemplateWrite(order, item, eq, AppendItem(item, eq, acc), k \in wf)
        ELSE AppendItem(item, eq, acc)

\* the body of "for item in order.get('line_items', [])" for item k
ItemStep(order, item, k, acc, tpl, wf) ==
    LET eq == EffectiveQuantity(order, item)
    IN  IF ~item.has_name THEN [acc EXCEPT !.raised = TRUE]
        ELSE IF eq <= 0 THEN acc
        ELSE IF tpl THEN TemplateWrite(order, item, eq, AppendItem(item, eq, acc), k \in wf)
        ELSE AppendItem(item, eq, acc)

RECURSIVE ItemLoop(_, _, _, _, _)
ItemLoop(order, k, acc, tpl, wf) ==
    IF acc.raised \/ k > Len(order.line_items) THEN acc
    ELSE ItemLoop(order, k + 1,
                  ItemStep(order, order.line_items[k], k, acc, tpl, wf), tpl, wf)

RECURSIVE SumRefundTotals(_)
SumRefundTotals(refunds) ==
    IF refunds = <<>> THEN 0 ELSE Head(refunds).total + SumRefundTotals(Tail(refunds))

RECURSIVE SumItemTotals(_)
SumItemTotals(items) ==
    IF items = <<>> THEN 0 ELSE Head(items).total + SumItemTotals(Tail(items))

\* jdatetime...strftime('%Y/%m/%d %H:%M:%S') of a well-formed date_created;
\* dates are ordinals of the seconds of the reporting window
FormatJalali(date_created) == <<"1", "4", "0", "3", "/">> \o Str(date_created)

\* the dictionary order_row
OrderRow(order, acc) ==
    [order_number |-> CustomOrderNumber(order),
     date |-> FormatJalali(order.date_created),
     total_pre |-> acc.total_items_price_no_tax,
     total_vat |-> acc.total_items_vat,
     refund_total |-> SumRefundTotals(order.refunds),
     net_total |-> order.total - SumRefundTotals(order.refunds),
     names |-> JoinLines(acc.item_names),
     quantities |-> JoinLines(acc.item_quantities),
     prices |-> JoinLines(acc.item_prices_no_tax),
     vats |-> JoinLines(acc.item_vat_amounts),
     items_cost |-> SumItemTotals(order.line_items)]

\* one iteration of "for order in orders_data": the outcome of the try block
NormalizeOrder(order, wb, sb, row, sheet, wf) ==
    LET acc == ItemLoop(order, 1, EmptyLists(row, sheet),
                        TemplateActive(wb, sb, order), wf)
        ok == ~acc.raised /\ order.date_created # BadDate
    IN  [ok |-> ok,
         order_row |-> IF ok THEN <<OrderRow(order, acc)>> ELSE <<>>,
         row |-> acc.row, sheet |-> acc.sheet,
         write_failed |-> acc.write_failed]

\* ------------------------------------------------------------ file names
\* 0 is tis-<date>.xlsx, k > 0 is tis-<date>_<k>.xlsx
RECURSIVE SearchName(_, _, _)
SearchName(name, counter, existing) ==
    IF name \in existing THEN SearchName(counter, counter + 1, existing) ELSE name

\* a name search that tries one suffix only
UniqueNameOneCheck(existing) == IF 0 \in existing THEN 1 ELSE 0

\* the while loop of the name search
UniqueName(existing) == SearchName(0, 1, existing)

\* ---------------------------------------------------------------- sorting
CharOrder == <<" ", ",", "-", "/", "0", "1", "2", "3", "4", "5", "6", "7", "8", "9", ":">>

Rank(c) == CHOOSE k \in 1..Len(CharOrder) : CharOrder[k] = c

\* s <= t for Python strings
RECURSIVE StrLeq(_, _)
StrLeq(s, t) ==
    IF s = <<>> THEN TRUE
    ELSE IF t = <<>> THEN FALSE
    ELSE IF Head(s) = Head(t) THEN StrLeq(Tail(s), Tail(t))
    ELSE Rank(Head(s)) < Rank(Head(t))

IsSortedByDate(rows) ==
    \A a, b \in 1..Len(rows) : a < b => StrLeq(rows[a].date, rows[b].date)

\* a data frame left in the order of processed_data
SortValuesKeepsOrder(rows) == {rows}

\* df.sort_values(by=date column): some ordering of the rows by that column
SortValues(rows) ==
    {r \in {[k \in 1..Len(rows) |-> rows[f[k]]] : f \in Permutations(1..Len(rows))} :
        IsSortedByDate(r)}

\* ------------------------------------------------------------------ dates
\* days are counted from the start of the month of the run
NoDay == 0
FirstDay == 2
NoDate == <<>>

\* jdatetime.datetime.fromgregorian(...).strftime('%Y-%m-%d')
JalaliDateStr(day) == <<"1", "4", "0", "3", "-">> \o Str(day)

\* datetime.now().strftime('%Y-%m-%d')
GregorianDateStr(day) == <<"2", "0", "2", "4", "-">> \o Str(day)

\* ---------------------------------------------------------- column widths
\* the columns of text of the main report
Columns == {"date", "names", "quantities", "prices", "vats"}

\* the columns of the report of main.py among them
M_Columns == {"date", "names", "quantities"}

\* the lengths of the titles of the columns
HeaderLen == [date |-> 18, names |-> 11, quantities |-> 25, prices |-> 28, vats |-> 26]

Header(col) == [k \in 1..HeaderLen[col] |-> "h"]

NoWidths == [c \in Columns |-> 0]

Padding == 2
MaxWidth == 70

\* the values of the cells of a column, the title first
ColumnCells(rows, col) == <<Header(col)>> \o [k \in 1..Len(rows) |-> rows[k][col]]

MaxOf(S) == CHOOSE m \in S : \A x \in S : x <= m

\* max(len(str(cell.value).split('\n')[0]) for cell in column), padded and capped
ColumnWidth(rows, col) ==
    LET cells == ColumnCells(rows, col)
        max_length == MaxOf({Len(SplitLines(cells[k], <<>>)[1]) : k \in 1..Len(cells)})
        adjusted_width == max_length + Padding
    IN  IF adjusted_width < MaxWidth THEN adjusted_width ELSE MaxWidth

\* main.py: the loop over content_lines of every cell of the column
M_ColumnWidth(rows, col) ==
    LET cells == ColumnCells(rows, col)
        lengths == UNION {{Len(SplitLines(cells[k], <<>>)[n]) :
                              n \in 1..Len(SplitLines(cells[k], <<>>))} :
                          k \in 1..Len(cells)}
        max_length == MaxOf(lengths \cup {0})
        adjusted_width == max_length + Padding
    IN  IF adjusted_width > MaxWidth THEN MaxWidth ELSE adjusted_width

\* ----------------------------------------------------------------- inputs
Billing == [first_name |-> <<"S">>, last_name |-> <<"R">>, company |-> <<"C", "o">>]

ItemA == [has_name |-> TRUE, name |-> <<"A">>, product_id |-> 1,
          variation_id |-> NoVar, quantity |-> 3, total |-> 330]
ItemB == [has_name |-> TRUE, name |-> <<"B">>, product_id |-> 2,
          variation_id |-> 7, quantity |-> 1, total |-> 1100]
ItemSameA == [has_name |-> TRUE, name |-> <<"A", "2">>, product_id |-> 1,
              variation_id |-> 0, quantity |-> 2, total |-> 0]
ItemNoName == [has_name |-> FALSE, name |-> <<>>, product_id |-> 3,
               variation_id |-> NoVar, quantity |-> 1, total |-> 50]

RefundOneA == [total |-> 110,
               line_items |-> <<[product_id |-> 1, variation_id |-> 0, qty |-> 1]>>]
RefundAllA == [total |-> 330,
               line_items |-> <<[product_id |-> 1, variation_id |-> NoVar, qty |-> 3]>>]
RefundTwoLines == [total |-> 1100,
                   line_items |-> <<[product_id |-> 2, variation_id |-> 7, qty |-> 1],
                                    [product_id |-> 1, variation_id |-> 7, qty |-> 1]>>]

MetaCorporate == <<[key |-> "_order_number", value |-> 900],
                   [key |-> "_user_type", value |-> "corporate"]>>
MetaIndividual == <<[key |-> "_user_type", value |-> "individual"]>>

MkOrder(date, meta, items, refunds) ==
    [id |-> 0, date_created |-> date, meta_data |-> meta, billing |-> Billing,
     line_items |-> items, refunds |-> refunds, total |-> 1500]

\* the orders of the runs of the whole job
SampleOrders ==
    { MkOrder(2, <<>>, <<ItemA, ItemB>>, <<RefundOneA>>),
      MkOrder(1, MetaCorporate, <<ItemA, ItemB>>, <<>>),
      MkOrder(BadDate, MetaIndividual, <<ItemB>>, <<>>),
      MkOrder(1, <<>>, <<ItemA, ItemNoName>>, <<>>),
      MkOrder(3, MetaIndividual, <<ItemA>>, <<RefundAllA>>) }

\* the orders of the runs that exercise the item loop
ItemSet == {ItemA, ItemB, ItemSameA}
RefundSet == {RefundOneA, RefundTwoLines}

SeqsUpTo(S, n) == UNION {[1..k -> S] : k \in 0..n}

ItemOrders ==
    { MkOrder(1, <<>>, items, refunds) :
        items \in SeqsUpTo(ItemSet, MaxItems),
        refunds \in SeqsUpTo(RefundSet, MaxRefunds) }

\* the orders of the runs that exercise the metadata lookups
MetaSet == {[key |-> "_wc_order_number", value |-> 800],
            [key |-> "_order_number", value |-> 900],
            [key |-> "_user_type", value |-> "corporate"],
            [key |-> "_billing_note", value |-> 5]}

MetaOrders == {MkOrder(1, meta, <<ItemA>>, <<>>) : meta \in SeqsUpTo(MetaSet, MaxMeta)}

\* the orders of the runs that exercise the column widths: a name longer
\* than the title of its column, and one longer than the widest column
ItemLong == [has_name |-> TRUE, name |-> [k \in 1..(HeaderLen.names + 1) |-> "n"],
             product_id |-> 3, variation_id |-> NoVar, quantity |-> 1, total |-> 220]
ItemWide == [has_name |-> TRUE, name |-> [k \in 1..(MaxWidth + 1) |-> "w"],
             product_id |-> 4, variation_id |-> NoVar, quantity |-> 1, total |-> 110]

WidthOrders ==
    { MkOrder(1, <<>>, items, <<>>) :
        items \in SeqsUpTo({ItemA, ItemLong, ItemWide}, MaxItems) }

\* the source numbers its orders
WithIds(os) == [k \in 1..Len(os) |-> [os[k] EXCEPT !.id = k]]

\* ------------------------------------------------------------------ state
VARIABLES
    orders,                      \* orders_data: the orders of the reporting day
    files,                       \* template outputs on disk: name -> run that made it
    produced,                    \* <<run, name>> of every template file saved
    run,                         \* number of the current run of the job
    pc,                          \* position in create_excel_report
    i,                           \* index of the next order of the loop
    processed_data,
    templated_output_filename,
    workbook_template,
    sheet_body,
    current_row_for_template,
    sheet,                       \* rows of the sheet of the open template workbook
    tpl_fault,                   \* what went wrong with the template file, or "ok"
    write_failed,                \* a template cell write raised in this run
    render_raised,               \* writing or styling the main file raised
    main_rows,                   \* rows of the data frame written to the main file
    ret_main,                    \* returned main file name, or "None"
    ret_extra,                   \* returned list of template files
    widths,                      \* column widths set in the main file
    report_date_str              \* the date of the names of the reporter's files

rvars == <<files, produced, run, pc, i, processed_data, templated_output_filename,
           workbook_template, sheet_body, current_row_for_template, sheet,
           tpl_fault, write_failed, render_raised, main_rows, ret_main, ret_extra,
           widths, report_date_str>>

VARIABLES
    email_env,                   \* the e-mail settings of the environment
    mpc,                         \* position in the script of main.py
    page,
    all_orders,
    fetch_error,                 \* how a page request went wrong, or "none"
    m_rows,                      \* processed_data of main.py's report builder
    m_render_raised,
    excel_file,                  \* result of main.py's create_excel_report
    emails_sent,
    aborted,                     \* main()'s exception handler was entered
    woo_env,                     \* the order-source settings of the environment
    exit_code,                   \* exit status of the process, NoExit while it runs
    smtp_log,                    \* the SMTP operations performed, in order
    m_widths,                    \* column widths set by main.py
    requests,                    \* the page requests sent to the source, in order
    today,                       \* the day of the wall clock
    yesterday,                   \* the day of the fetch window
    excel_date_str,              \* the date of the name of main.py's file
    subject_date_str             \* the date of the subject of the e-mail

mvars == <<email_env, mpc, page, all_orders, fetch_error, m_rows, m_render_raised,
           excel_file, emails_sent, aborted, woo_env, exit_code, smtp_log, m_widths,
           requests, today, yesterday, excel_date_str, subject_date_str>>

vars == <<orders, rvars, mvars>>

MainName == "Orders.xlsx"

Exists(name) == name \in DOMAIN files

\* ----------------------------------------------- ExcelReporter, lines 32-68
Setup(outcome) ==
    LET name == UniqueName(DOMAIN files)
        opened == outcome = "ok"
    IN  /\ templated_output_filename' = IF outcome = "missing" THEN NoFile ELSE name
        /\ files' = IF outcome \in {"missing", "copy_fails"} THEN files
                    ELSE (name :> run) @@ files
        /\ workbook_template' = opened
        /\ sheet_body' = opened
        /\ current_row_for_template' = IF opened THEN START_ROW_BODY ELSE 0
        /\ tpl_fault' = outcome

R_Setup ==
    /\ pc = "start"
    /\ \E outcome \in {"missing", "copy_fails", "load_fails", "no_sheet", "ok"} :
           Setup(outcome)
    /\ processed_data' = <<>>
    /\ sheet' = <<>>
    /\ i' = 1
    /\ pc' = "orders"
    /\ report_date_str' = JalaliDateStr(today - 1)
    /\ UNCHANGED <<orders, mvars, produced, run, write_failed, render_raised, main_rows,
                   ret_main, ret_extra, widths>>

\* ---------------------------------------------- ExcelReporter, lines 71-166
\* a handler that ends the loop at the first failing order
AfterOrderStops(res) ==
    [rows |-> res.order_row, next |-> IF res.ok THEN i + 1 ELSE Len(orders) + 1]

\* the except clause of the order loop: log and continue
AfterOrder(res) == [rows |-> res.order_row, next |-> i + 1]

R_Order ==
    /\ pc = "orders"
    /\ i <= Len(orders)
    /\ \E wf \in SUBSET (1..Len(orders[i].line_items)) :
        /\ TemplateActive(workbook_template, sheet_body, orders[i]) \/ wf = {}
        /\ LET res == NormalizeOrder(orders[i], workbook_template, sheet_body,
                                     current_row_for_template, sheet, wf)
               nxt == AfterOrder(res)
           IN  /\ processed_data' = processed_data \o nxt.rows
               /\ i' = nxt.next
               /\ current_row_for_template' = res.row
               /\ sheet' = res.sheet
               /\ write_failed' = (write_failed \/ res.write_failed)
    /\ UNCHANGED <<orders, mvars, files, produced, run, pc, templated_output_filename,
                   workbook_template, sheet_body, tpl_fault, render_raised, main_rows,
                   ret_main, ret_extra, widths, report_date_str>>

\* --------------------------------------------- ExcelReporter, lines 168-177
\* a save whose failure leaves the file name set
SaveTemplateKeepsName(save_ok) ==
    IF workbook_template /\ templated_output_filename # NoFile /\ save_ok
    THEN /\ produced' = Append(produced, <<run, templated_output_filename>>)
         /\ files' = (templated_output_filename :> run) @@ files
         /\ UNCHANGED templated_output_filename
    ELSE /\ templated_output_filename' =
                IF workbook_template THEN templated_output_filename ELSE NoFile
         /\ UNCHANGED <<produced, files>>

\* "if workbook_template and templated_output_filename: ... save ... else"
SaveTemplate(save_ok) ==
    IF workbook_template /\ templated_output_filename # NoFile /\ save_ok
    THEN /\ produced' = Append(produced, <<run, templated_output_filename>>)
         /\ files' = (templated_output_filename :> run) @@ files
         /\ UNCHANGED templated_output_filename
    ELSE /\ templated_output_filename' = NoFile
         /\ UNCHANGED <<produced, files>>

R_Save ==
    /\ pc = "orders"
    /\ i > Len(orders)
    /\ \E save_ok \in BOOLEAN :
        /\ workbook_template \/ save_ok
        /\ SaveTemplate(save_ok)
        /\ tpl_fault' = IF save_ok THEN tpl_fault ELSE "save_fails"
    /\ pc' = "main"
    /\ UNCHANGED <<orders, mvars, run, i, processed_data, workbook_template, sheet_body,
                   current_row_for_template, sheet, write_failed, render_raised,
                   main_rows, ret_main, ret_extra, widths, report_date_str>>

\* --------------------------------------------- ExcelReporter, lines 179-226
\* the list of extra files of both return statements after the data frame
ExtraFiles ==
    IF templated_output_filename # NoFile /\ Exists(templated_output_filename)
    THEN <<templated_output_filename>> ELSE <<>>

\* "if not processed_data: return None, []"
ReturnNoData == [main |-> "None", extra |-> <<>>]

\* the return statement of the except clause
ReturnRenderFailed == [main |-> "None", extra |-> ExtraFiles]

ReturnRendered == [main |-> MainName, extra |-> ExtraFiles]

R_Main ==
    /\ pc = "main"
    /\ \/ /\ processed_data = <<>>
          /\ ret_main' = ReturnNoData.main
          /\ ret_extra' = ReturnNoData.extra
          /\ UNCHANGED <<main_rows, render_raised, widths>>
       \/ /\ processed_data # <<>>
          /\ \E df \in SortValues(processed_data) :
              \E outcome \in {"ok", "raises"} :
                  /\ main_rows' = IF outcome = "ok" THEN df ELSE <<>>
                  /\ render_raised' = (outcome # "ok")
                  /\ widths' = IF outcome = "ok" THEN [c \in Columns |-> ColumnWidth(df, c)]
                               ELSE widths
                  /\ ret_main' = IF outcome = "ok" THEN ReturnRendered.main
                                 ELSE ReturnRenderFailed.main
                  /\ ret_extra' = IF outcome = "ok" THEN ReturnRendered.extra
                                  ELSE ReturnRenderFailed.extra
    /\ pc' = "done"
    /\ UNCHANGED <<orders, mvars, files, produced, run, i, processed_data,
                   templated_output_filename, workbook_template, sheet_body,
                   current_row_for_template, sheet, tpl_fault, write_failed,
                   report_date_str>>

\* the job is started again on the same reporting day
R_Rerun ==
    /\ pc = "done"
    /\ run < MaxRuns
    /\ run' = run + 1
    /\ pc' = "start"
    /\ i' = 1
    /\ processed_data' = <<>>
    /\ templated_output_filename' = NoFile
    /\ workbook_template' = FALSE
    /\ sheet_body' = FALSE
    /\ current_row_for_template' = 0
    /\ sheet' = <<>>
    /\ tpl_fault' = "ok"
    /\ write_failed' = FALSE
    /\ render_raised' = FALSE
    /\ main_rows' = <<>>
    /\ ret_main' = "None"
    /\ ret_extra' = <<>>
    /\ widths' = NoWidths
    /\ report_date_str' = NoDate
    /\ UNCHANGED <<orders, mvars, files, produced>>

InitLocals ==
    /\ produced = <<>>
    /\ run = 1
    /\ i = 1
    /\ processed_data = <<>>
    /\ templated_output_filename = NoFile
    /\ workbook_template = FALSE
    /\ sheet_body = FALSE
    /\ current_row_for_template = 0
    /\ sheet = <<>>
    /\ tpl_fault = "ok"
    /\ write_failed = FALSE
    /\ render_raised = FALSE
    /\ main_rows = <<>>
    /\ ret_main = "None"
    /\ ret_extra = <<>>
    /\ widths = NoWidths
    /\ report_date_str = NoDate

\* ------------------------------------------------------- main.py, the script
per_page == 100

NoExit == -1

\* lines 30-32: "if not all([...]): ... exit(1)" before any function is called
M_Config ==
    /\ mpc = "config"
    /\ mpc' = IF woo_env = "missing" THEN "exited" ELSE "fetch"
    /\ exit_code' = IF woo_env = "missing" THEN 1 ELSE exit_code
    /\ UNCHANGED <<orders, rvars, email_env, page, all_orders, fetch_error, m_rows,
                   m_render_raised, excel_file, emails_sent, aborted, woo_env, smtp_log,
                   m_widths, requests, today, yesterday, excel_date_str,
                   subject_date_str>>

\* main() has returned, also from its except clause, and the script ends
ExitStatus == 0

M_Exit ==
    /\ mpc = "done"
    /\ mpc' = "exited"
    /\ exit_code' = ExitStatus
    /\ UNCHANGED <<orders, rvars, email_env, page, all_orders, fetch_error, m_rows,
                   m_render_raised, excel_file, emails_sent, aborted, woo_env, smtp_log,
                   m_widths, requests, today, yesterday, excel_date_str,
                   subject_date_str>>

Min(a, b) == IF a < b THEN a ELSE b

\* lines 96-108 of main.py: every line item is listed, refunded or not
RECURSIVE M_ItemNames(_)
M_ItemNames(items) ==
    IF items = <<>> THEN <<>> ELSE <<Head(items).name>> \o M_ItemNames(Tail(items))

RECURSIVE M_ItemQuantities(_, _)
M_ItemQuantities(order, items) ==
    IF items = <<>> THEN <<>>
    ELSE <<Str(EffectiveQuantity(order, Head(items)))>>
         \o M_ItemQuantities(order, Tail(items))

M_Raises(order) ==
    \/ \E k \in 1..Len(order.line_items) : ~order.line_items[k].has_name
    \/ order.date_created = BadDate

M_OrderRow(order) ==
    [order_number |-> CustomOrderNumber(order),
     date |-> FormatJalali(order.date_created),
     refund_total |-> SumRefundTotals(order.refunds),
     net_total |-> order.total - SumRefundTotals(order.refunds),
     names |-> JoinLines(M_ItemNames(order.line_items)),
     quantities |-> JoinLines(M_ItemQuantities(order, order.line_items)),
     items_cost |-> SumItemTotals(order.line_items)]

\* the order loop of main.py's create_excel_report
RECURSIVE M_Process(_)
M_Process(os) ==
    IF os = <<>> THEN <<>>
    ELSE (IF M_Raises(Head(os)) THEN <<>> ELSE <<M_OrderRow(Head(os))>>)
         \o M_Process(Tail(os))

\* a fetch that swallows the exception and returns what it has
FetchRaisedSwallowed ==
    /\ fetch_error' = "raised"
    /\ mpc' = IF all_orders # <<>> THEN "report" ELSE "done"
    /\ UNCHANGED <<page, all_orders, aborted>>

\* "except Exception ... raise" of the fetch, caught by main()
FetchRaised ==
    /\ fetch_error' = "raised"
    /\ aborted' = TRUE
    /\ mpc' = "done"
    /\ UNCHANGED <<page, all_orders>>

\* "if not isinstance(response_json, list) or not response_json: break", then
\* "return all_orders" and "if orders:" of main()
FetchBreak(shape) ==
    /\ fetch_error' = IF shape = "nonlist" THEN "nonlist" ELSE fetch_error
    /\ mpc' = IF all_orders # <<>> THEN "report" ELSE "done"
    /\ UNCHANGED <<page, all_orders, aborted>>

\* a loop that puts each new page in front of the earlier ones
ExtendFront(all, response_json) == response_json \o all

\* all_orders.extend(response_json)
Extend(all, response_json) == all \o response_json

\* a request with the parameters "per_page" and "page", and the answer to it
Request(shape, response_json) ==
    [page |-> page, per_page |-> per_page, shape |-> shape, orders |-> response_json]

\* one request of the pagination loop
M_FetchPage ==
    /\ mpc = "fetch"
    /\ \/ \E n \in 1..Min(per_page, Len(orders) - Len(all_orders)) :
            LET response_json ==
                    SubSeq(orders, Len(all_orders) + 1, Len(all_orders) + n)
            IN  /\ all_orders' = Extend(all_orders, response_json)
                /\ page' = page + 1
                /\ requests' = Append(requests, Request("list", response_json))
                /\ UNCHANGED <<mpc, fetch_error, aborted>>
       \/ \E shape \in {"empty", "nonlist"} :
            /\ FetchBreak(shape)
            /\ requests' = Append(requests,
                                  Request(IF shape = "empty" THEN "list" ELSE shape, <<>>))
       \/ /\ FetchRaised
          /\ requests' = Append(requests, Request("raised", <<>>))
    /\ yesterday' = IF page = 1 THEN today - 1 ELSE yesterday
    /\ UNCHANGED <<orders, rvars, email_env, m_rows, m_render_raised, excel_file,
                   emails_sent, woo_env, exit_code, smtp_log, m_widths, today,
                   excel_date_str, subject_date_str>>

\* the result of main.py's create_excel_report, and "if excel_file:" of main()
RenderResult(raised) == IF raised THEN "None" ELSE MainName

\* an orchestrator that does not test the result
AfterReportAlwaysEmails(result) == "email"

AfterReport(result) == IF result # "None" THEN "email" ELSE "done"

M_CreateReport ==
    /\ mpc = "report"
    /\ m_rows' = M_Process(all_orders)
    /\ \E raised \in BOOLEAN :
        /\ m_render_raised' = raised
        /\ m_widths' = IF raised THEN m_widths
                       ELSE [c \in Columns |->
                               IF c \in M_Columns
                               THEN M_ColumnWidth(M_Process(all_orders), c) ELSE 0]
        /\ excel_file' = RenderResult(raised)
        /\ mpc' = AfterReport(RenderResult(raised))
    /\ excel_date_str' = GregorianDateStr(today)
    /\ UNCHANGED <<orders, rvars, email_env, page, all_orders, fetch_error,
                   emails_sent, aborted, woo_env, exit_code, smtp_log, requests, today,
                   yesterday, subject_date_str>>

\* --------------------------------------------------------- e-mail settings
Addr(c) == <<c, "@", "x">>

\* what os.getenv gave for the e-mail variables; <<>> is an unset or empty
\* variable, and smtp_port is the value of int(os.getenv("SMTP_PORT", 587))
EnvOk ==
    [sender_email |-> Addr("s"), sender_password |-> <<"p">>, smtp_server |-> <<"h">>,
     smtp_port |-> 587, receiver_to |-> Addr("a"), receiver_cc |-> <<>>]

EnvNoCredentials == [EnvOk EXCEPT !.sender_password = <<>>]

EnvNoRecipients == [EnvOk EXCEPT !.receiver_to = <<>>]

ReceiverTexts == {<<>>, Addr("a"), Addr("a") \o <<",", " ">> \o Addr("b")}

EmailEnvs ==
    [sender_email : {<<>>, Addr("s")}, sender_password : {<<>>, <<"p">>},
     smtp_server : {<<>>, <<"h">>}, smtp_port : {0, 587},
     receiver_to : ReceiverTexts, receiver_cc : ReceiverTexts]

\* str.strip() for blanks
RECURSIVE LStrip(_)
LStrip(txt) ==
    IF txt # <<>> /\ Head(txt) = " " THEN LStrip(Tail(txt)) ELSE txt

RECURSIVE RStrip(_)
RStrip(txt) ==
    IF txt # <<>> /\ txt[Len(txt)] = " " THEN RStrip(SubSeq(txt, 1, Len(txt) - 1))
    ELSE txt

Strip(txt) == RStrip(LStrip(txt))

\* str.split(','): cur is the piece being read
RECURSIVE SplitComma(_, _)
SplitComma(txt, cur) ==
    IF txt = <<>> THEN <<cur>>
    ELSE IF Head(txt) = "," THEN <<cur>> \o SplitComma(Tail(txt), <<>>)
    ELSE SplitComma(Tail(txt), Append(cur, Head(txt)))

RECURSIVE StripAll(_)
StripAll(parts) ==
    IF parts = <<>> THEN <<>> ELSE <<Strip(Head(parts))>> \o StripAll(Tail(parts))

\* "[email.strip() for email in x.split(',')] if x else []"
ReceiverList(txt) == IF txt # <<>> THEN StripAll(SplitComma(txt, <<>>)) ELSE <<>>

\* EmailSender.__init__
EmailSender(env) ==
    [sender_email |-> env.sender_email, sender_password |-> env.sender_password,
     smtp_server |-> env.smtp_server, smtp_port |-> env.smtp_port,
     receiver_to |-> ReceiverList(env.receiver_to),
     receiver_cc |-> ReceiverList(env.receiver_cc)]

\* a sender that tests the credentials only
E_SkippedCredentialsOnly(self) ==
    \/ self.sender_email = <<>>
    \/ self.sender_password = <<>>
    \/ self.smtp_server = <<>>
    \/ self.smtp_port = 0

\* the two guards of EmailSender.send_email_report
E_Skipped(self) ==
    \/ self.sender_email = <<>> \/ self.sender_password = <<>>
    \/ self.smtp_server = <<>> \/ self.smtp_port = 0
    \/ (self.receiver_to = <<>> /\ self.receiver_cc = <<>>)

\* the SMTP operations of the with block, up to the one that raises
SmtpOps(outcome) ==
    CASE outcome = "connect_fails" -> <<"connect">>
      [] outcome = "auth_fails" -> <<"connect", "starttls", "login">>
      [] outcome = "send_fails" -> <<"connect", "starttls", "login", "send_message">>
      [] outcome = "sent" -> <<"connect", "starttls", "login", "send_message">>

SmtpOutcomes == {"connect_fails", "auth_fails", "send_fails", "sent"}

\* EmailSender.send_email_report
E_Send ==
    /\ mpc = "sender"
    /\ LET self == EmailSender(email_env)
       IN  IF E_Skipped(self)
           THEN UNCHANGED <<smtp_log, emails_sent, subject_date_str>>
           ELSE \E outcome \in SmtpOutcomes :
                   /\ subject_date_str' = JalaliDateStr(today - 1)
                   /\ smtp_log' = smtp_log \o SmtpOps(outcome)
                   /\ emails_sent' = IF outcome = "sent" THEN emails_sent + 1
                                     ELSE emails_sent
    /\ mpc' = "returned"
    /\ UNCHANGED <<orders, rvars, email_env, page, all_orders, fetch_error, m_rows,
                   m_render_raised, excel_file, aborted, woo_env, exit_code, m_widths,
                   requests, today, yesterday, excel_date_str>>

\* the two guards of send_email_report of main.py
EmailSkipped ==
    \/ email_env.sender_email = <<>> \/ email_env.sender_password = <<>>
    \/ email_env.smtp_server = <<>> \/ email_env.smtp_port = 0
    \/ (email_env.receiver_to = <<>> /\ email_env.receiver_cc = <<>>)

M_SendEmail ==
    /\ mpc = "email"
    /\ IF EmailSkipped
       THEN UNCHANGED <<smtp_log, emails_sent, subject_date_str>>
       ELSE \E outcome \in SmtpOutcomes :
               /\ subject_date_str' = GregorianDateStr(today)
               /\ smtp_log' = smtp_log \o SmtpOps(outcome)
               /\ emails_sent' = IF outcome = "sent" THEN emails_sent + 1
                                 ELSE emails_sent
    /\ mpc' = "done"
    /\ UNCHANGED <<orders, rvars, email_env, page, all_orders, fetch_error, m_rows,
                   m_render_raised, excel_file, aborted, woo_env, exit_code, m_widths,
                   requests, today, yesterday, excel_date_str>>

InitMainLocals ==
    /\ page = 1
    /\ all_orders = <<>>
    /\ fetch_error = "none"
    /\ m_rows = <<>>
    /\ m_render_raised = FALSE
    /\ excel_file = "None"
    /\ emails_sent = 0
    /\ aborted = FALSE
    /\ exit_code = NoExit
    /\ smtp_log = <<>>
    /\ m_widths = NoWidths
    /\ requests = <<>>
    /\ today = FirstDay
    /\ yesterday = NoDay
    /\ excel_date_str = NoDate
    /\ subject_date_str = NoDate

\* ------------------------------------------- the pipeline of the components
\* Order Source -> Report Builder: create_excel_report is called on the orders
\* that the fetch returned
P_Report ==
    /\ mpc = "report"
    /\ pc = "idle"
    /\ orders' = all_orders
    /\ pc' = "start"
    /\ mpc' = "reporter"
    /\ UNCHANGED <<files, produced, run, i, processed_data, templated_output_filename,
                   workbook_template, sheet_body, current_row_for_template, sheet,
                   tpl_fault, write_failed, render_raised, main_rows, ret_main,
                   ret_extra, widths, report_date_str>>
    /\ UNCHANGED <<email_env, page, all_orders, fetch_error, m_rows, m_render_raised,
                   excel_file, emails_sent, aborted, woo_env, exit_code, smtp_log,
                   m_widths, requests, today, yesterday, excel_date_str,
                   subject_date_str>>

\* Report Builder -> Notifier: the files of the report are sent
P_Notify ==
    /\ mpc = "reporter"
    /\ pc = "done"
    /\ ret_main # "None"
    /\ mpc' = "sender"
    /\ UNCHANGED <<orders, rvars, email_env, page, all_orders, fetch_error, m_rows,
                   m_render_raised, excel_file, emails_sent, aborted, woo_env,
                   exit_code, smtp_log, m_widths, requests, today, yesterday,
                   excel_date_str, subject_date_str>>

\* the wall clock passes midnight
Tick ==
    /\ today < FirstDay + MaxTicks
    /\ today' = today + 1
    /\ UNCHANGED <<orders, rvars, email_env, mpc, page, all_orders, fetch_error, m_rows,
                   m_render_raised, excel_file, emails_sent, aborted, woo_env,
                   exit_code, smtp_log, m_widths, requests, yesterday, excel_date_str,
                   subject_date_str>>

\* ---------------------------------------------------------- specifications
\* template outputs left on disk by earlier work: owner 0
OldFiles == {<<>>, (0 :> 0)}

DayOrders == {WithIds(os) : os \in SeqsUpTo(SampleOrders, MaxOrders)}

\* either the reporter is called on the day's orders, or the script is started
Init ==
    /\ orders \in DayOrders
    /\ InitLocals
    /\ InitMainLocals
    /\ \/ /\ pc = "start"
          /\ files \in OldFiles
          /\ mpc = "idle"
          /\ email_env = EnvOk
          /\ woo_env = "ok"
       \/ /\ pc = "idle"
          /\ files = <<>>
          /\ mpc = "config"
          /\ email_env \in {EnvOk, EnvNoCredentials, EnvNoRecipients}
          /\ woo_env \in {"ok", "missing"}

Reporter == R_Setup \/ R_Order \/ R_Save \/ R_Main

Script == M_Config \/ M_FetchPage \/ M_CreateReport \/ M_SendEmail \/ M_Exit

Next == Reporter \/ Script

Spec == Init /\ [][Next]_vars

\* repeated runs of the reporter on one reporting day
InitRuns ==
    /\ orders \in {WithIds(os) : os \in SeqsUpTo(SampleOrders, 1)}
    /\ InitLocals
    /\ InitMainLocals
    /\ pc = "start"
    /\ files \in OldFiles
    /\ mpc = "idle"
    /\ email_env = EnvOk
    /\ woo_env = "ok"

NextRuns == Reporter \/ R_Rerun

SpecRuns == InitRuns /\ [][NextRuns]_vars

\* one run of the reporter on one order with any line items and refunds
InitItems ==
    /\ orders \in {WithIds(<<o>>) : o \in ItemOrders}
    /\ InitLocals
    /\ InitMainLocals
    /\ pc = "start"
    /\ files = <<>>
    /\ mpc = "idle"
    /\ email_env = EnvOk
    /\ woo_env = "ok"

SpecItems == InitItems /\ [][Reporter]_vars

\* one run of the script; its pagination loop goes on as long as it can
InitFetch ==
    /\ orders \in DayOrders
    /\ InitLocals
    /\ InitMainLocals
    /\ pc = "idle"
    /\ files = <<>>
    /\ mpc = "config"
    /\ email_env = EnvOk
    /\ woo_env = "ok"

SpecFetch == InitFetch /\ [][Script]_vars /\ WF_vars(M_FetchPage)

\* one run of the reporter on one order with any metadata
InitMeta ==
    /\ orders \in {WithIds(<<o>>) : o \in MetaOrders}
    /\ InitLocals
    /\ InitMainLocals
    /\ pc = "start"
    /\ files = <<>>
    /\ mpc = "idle"
    /\ email_env = EnvOk
    /\ woo_env = "ok"

SpecMeta == InitMeta /\ [][Reporter]_vars

\* one run of either report builder on one order with names of any length
InitWidth ==
    /\ orders \in {WithIds(<<o>>) : o \in WidthOrders}
    /\ InitLocals
    /\ InitMainLocals
    /\ files = <<>>
    /\ email_env = EnvOk
    /\ woo_env = "ok"
    /\ \/ pc = "start" /\ mpc = "idle"
       \/ pc = "idle" /\ mpc = "config"

SpecWidth == InitWidth /\ [][Next]_vars

\* one run of the pipeline of the components, under a running clock
InitPipeline ==
    /\ orders \in {WithIds(os) : os \in SeqsUpTo(SampleOrders, 1)}
    /\ InitLocals
    /\ InitMainLocals
    /\ pc = "idle"
    /\ files = <<>>
    /\ mpc = "fetch"
    /\ email_env = EnvOk
    /\ woo_env = "ok"

NextPipeline == M_FetchPage \/ P_Report \/ Reporter \/ P_Notify \/ E_Send \/ Tick

SpecPipeline == InitPipeline /\ [][NextPipeline]_vars

\* one call of a send_email_report with any e-mail settings
InitEmail ==
    /\ orders = <<>>
    /\ InitLocals
    /\ InitMainLocals
    /\ pc = "idle"
    /\ files = <<>>
    /\ mpc \in {"sender", "email"}
    /\ email_env \in EmailEnvs
    /\ woo_env = "ok"

SpecEmail == InitEmail /\ [][E_Send \/ M_SendEmail]_vars

\* ================================================================= claims
\* normalisation of an order raises: a line item without a name, or a
\* date_created that does not parse
Raises(order) ==
    \/ \E k \in 1..Len(order.line_items) : ~order.line_items[k].has_name
    \/ order.date_created = BadDate

\* the orders handled so far
Handled == IF pc \in {"main", "done"} THEN Len(orders) ELSE i - 1

\* the positions k..n, in input order, of the orders that do not raise
RECURSIVE OkPositions(_, _)
OkPositions(k, n) ==
    IF k > n THEN <<>>
    ELSE (IF Raises(orders[k]) THEN <<>> ELSE <<k>>) \o OkPositions(k + 1, n)

Reported == OkPositions(1, Handled)

IsPermutationOf(s, t) ==
    /\ Len(s) = Len(t)
    /\ \E f \in Permutations(1..Len(s)) : \A k \in 1..Len(s) : s[k] = t[f[k]]

InReporter == pc \in {"orders", "main", "done"}

\* C1: the report has one row for each order whose normalisation does not
\* raise, in input order before the sort, and none for an order that raises;
\* the orders before and after a failing one are reported all the same
C1_OneRowPerNormalizedOrder ==
    /\ InReporter =>
        /\ Len(processed_data) = Len(Reported)
        /\ \A j \in 1..Len(Reported) :
              /\ processed_data[j].order_number = CustomOrderNumber(orders[Reported[j]])
              /\ processed_data[j].items_cost = SumItemTotals(orders[Reported[j]].line_items)
    /\ (pc = "done" /\ ret_main = MainName) => IsPermutationOf(main_rows, processed_data)

C1_Witness ==
    /\ pc = "done"
    /\ ret_main = MainName
    /\ Len(orders) = 2
    /\ Raises(orders[1])
    /\ ~Raises(orders[2])
    /\ Len(main_rows) = 1
    /\ main_rows[1].order_number = 2

\* ---- claim-side readings of an order, written from the claims' words
\* the lines of a cell; an empty cell has none
Lines(txt) == IF txt = <<>> THEN <<>> ELSE SplitLines(txt, <<>>)

\* refunded units of an item: over all refunds r and their lines l with the
\* item's (product_id, variation_id), an absent variation_id counting as 0
VariationOf(rec) == IF rec.variation_id = NoVar THEN 0 ELSE rec.variation_id

MatchingLines(order, item) ==
    {rl \in UNION {{<<r, l>> : l \in 1..Len(order.refunds[r].line_items)} :
                       r \in 1..Len(order.refunds)} :
        LET line == order.refunds[rl[1]].line_items[rl[2]]
        IN  line.product_id = item.product_id /\ VariationOf(line) = VariationOf(item)}

RECURSIVE SumQty(_, _)
SumQty(order, S) ==
    IF S = {} THEN 0
    ELSE LET rl == CHOOSE x \in S : TRUE
         IN  order.refunds[rl[1]].line_items[rl[2]].qty + SumQty(order, S \ {rl})

Remaining(order, k) ==
    order.line_items[k].quantity - SumQty(order, MatchingLines(order, order.line_items[k]))

\* positions k..n of the line items with a remaining quantity above zero
RECURSIVE Surviving(_, _, _)
Surviving(order, k, n) ==
    IF k > n THEN <<>>
    ELSE (IF Remaining(order, k) > 0 THEN <<k>> ELSE <<>>) \o Surviving(order, k + 1, n)

SurvivingItems(order) == Surviving(order, 1, Len(order.line_items))

\* order and row of the j-th reported order
OrderOf(j) == orders[Reported[j]]

RowsInStep == InReporter /\ Len(processed_data) = Len(Reported)

\* C2: the four per-item cells of a row have one line per line item that is
\* not fully refunded, and line t of each is about the same line item, the
\* t-th surviving one in line_items order
C2_ParallelFieldsAligned ==
    RowsInStep => \A j \in 1..Len(processed_data) :
        LET row == processed_data[j]
            order == OrderOf(j)
            sv == SurvivingItems(order)
        IN  /\ Len(Lines(row.names)) = Len(sv)
            /\ Len(Lines(row.quantities)) = Len(sv)
            /\ Len(Lines(row.prices)) = Len(sv)
            /\ Len(Lines(row.vats)) = Len(sv)
            /\ \A t \in 1..Len(sv) :
                LET item == order.line_items[sv[t]]
                    eq == Remaining(order, sv[t])
                    gross == IF item.total > 0 THEN item.total ELSE 0
                IN  /\ Lines(row.names)[t] = item.name
                    /\ Lines(row.quantities)[t] = Str(eq)
                    /\ Lines(row.prices)[t] = FormatMoney(Rat(10 * gross, 11))
                    /\ Lines(row.vats)[t] = FormatMoney(Rat(gross, 11))

C2_Witness ==
    /\ pc = "done"
    /\ Len(processed_data) = 1
    /\ Len(orders[1].line_items) = 2
    /\ Remaining(orders[1], 1) <= 0
    /\ Remaining(orders[1], 2) > 0
    /\ Lines(processed_data[1].names) = <<orders[1].line_items[2].name>>

\* C3: the effective quantity of each line item is its quantity minus the
\* refunded units of its (product_id, variation_id) pair, an absent
\* variation_id counting as 0, for each item on its own; quantities 3 and 1
\* with one unit of the first refunded give 2 and 1
C3_EffectiveQuantity ==
    /\ \A k \in 1..Len(orders) : \A t \in 1..Len(orders[k].line_items) :
          /\ EffectiveQuantity(orders[k], orders[k].line_items[t]) = Remaining(orders[k], t)
          /\ orders[k].refunds = <<>> =>
                EffectiveQuantity(orders[k], orders[k].line_items[t])
                    = orders[k].line_items[t].quantity
    /\ RowsInStep => \A j \in 1..Len(processed_data) :
          /\ Len(Lines(processed_data[j].quantities)) = Len(SurvivingItems(OrderOf(j)))
          /\ \A t \in 1..Len(SurvivingItems(OrderOf(j))) :
                Lines(processed_data[j].quantities)[t]
                    = Str(Remaining(OrderOf(j), SurvivingItems(OrderOf(j))[t]))
          /\ (OrderOf(j).line_items = <<ItemA, ItemB>> /\ OrderOf(j).refunds = <<RefundOneA>>)
                => processed_data[j].quantities = <<"2", NL, "1">>

\* two line items with the same pair, and a refund line with variation_id 0
\* against an item without variation_id
C3_Witness ==
    /\ pc = "done"
    /\ Len(processed_data) = 1
    /\ orders[1].line_items = <<ItemA, ItemSameA>>
    /\ orders[1].refunds = <<RefundOneA>>
    /\ processed_data[1].quantities = <<"2", NL, "1">>

\* C4: for a surviving item with a total above zero the pre-tax and VAT unit
\* amounts add up to total / effective quantity and the pre-tax amount times
\* 1.10 is that unit total; otherwise both are zero; so the two totals of a
\* row add up to the totals of its surviving items with a total above zero
RECURSIVE SumPositiveTotals(_, _)
SumPositiveTotals(order, sv) ==
    IF sv = <<>> THEN 0
    ELSE (IF order.line_items[Head(sv)].total > 0 THEN order.line_items[Head(sv)].total
          ELSE 0) + SumPositiveTotals(order, Tail(sv))

C4_TaxSplit ==
    RowsInStep => \A j \in 1..Len(processed_data) :
        LET order == OrderOf(j)
            sv == SurvivingItems(order)
        IN  /\ \A t \in 1..Len(sv) :
                LET item == order.line_items[sv[t]]
                    eq == Remaining(order, sv[t])
                    pre == PriceNoTaxPerItem(item, eq)
                    vat == VatPerItem(item, eq)
                IN  IF item.total > 0
                    THEN /\ RAdd(pre, vat) = Rat(item.total, eq)
                         /\ RMul(pre, TaxFactor) = Rat(item.total, eq)
                    ELSE pre = RZero /\ vat = RZero
            /\ RAdd(processed_data[j].total_pre, processed_data[j].total_vat)
                   = RInt(SumPositiveTotals(order, sv))
            /\ RMul(processed_data[j].total_pre, TaxFactor)
                   = RInt(SumPositiveTotals(order, sv))

C4_Witness ==
    /\ pc = "done"
    /\ Len(processed_data) = 1
    /\ orders[1].line_items = <<ItemSameA, ItemB>>
    /\ orders[1].refunds = <<RefundOneA>>
    /\ processed_data[1].total_pre = RInt(1000)
    /\ processed_data[1].total_vat = RInt(100)

\* ---- template rows
Individual(order) ==
    \/ \A k \in 1..Len(order.meta_data) : order.meta_data[k].key # "_user_type"
    \/ \E k \in 1..Len(order.meta_data) :
          /\ order.meta_data[k].key = "_user_type"
          /\ order.meta_data[k].value = "individual"
          /\ \A h \in 1..(k - 1) : order.meta_data[h].key # "_user_type"

\* the position of the first line item whose processing raises
FirstRaising(order) ==
    IF \E k \in 1..Len(order.line_items) : ~order.line_items[k].has_name
    THEN CHOOSE k \in 1..Len(order.line_items) :
            /\ ~order.line_items[k].has_name
            /\ \A h \in 1..(k - 1) : order.line_items[h].has_name
    ELSE Len(order.line_items) + 1

AllSurviving(order) == Len(SurvivingItems(order))

SurvivingBeforeRaise(order) == Len(Surviving(order, 1, FirstRaising(order) - 1))

\* rows expected of the individual orders among the first n
RECURSIVE RowsExpected(_, _)
RowsExpected(n, whole) ==
    IF n = 0 THEN 0
    ELSE (IF ~Individual(orders[n]) THEN 0
          ELSE IF whole THEN AllSurviving(orders[n])
          ELSE SurvivingBeforeRaise(orders[n]))
         + RowsExpected(n - 1, whole)

TemplateWritable == InReporter /\ workbook_template /\ ~write_failed

C6_NamesDistinct ==
    /\ \A a, b \in 1..Len(produced) : a # b => produced[a][2] # produced[b][2]
    /\ \A a \in 1..Len(produced) :
          /\ produced[a][2] \in DOMAIN files
          /\ files[produced[a][2]] = produced[a][1]

C6_ChosenNameIsFree ==
    (pc = "start" /\ templated_output_filename' # NoFile)
        => templated_output_filename' \notin DOMAIN files

C6_FreshTemplateNames == [](C6_NamesDistinct) /\ [][C6_ChosenNameIsFree]_vars

C6_Witness ==
    /\ Len(produced) = 2
    /\ produced[1] = <<1, 1>>
    /\ produced[2] = <<2, 2>>
    /\ files[0] = 0

\* ---- template failures
\* the row of an order when the template is open and every write succeeds
RowWithWorkingTemplate(order) ==
    NormalizeOrder(order, TRUE, TRUE, START_ROW_BODY, <<>>, {}).order_row

MainAsWithWorkingTemplate ==
    /\ Len(processed_data) = Len(Reported)
    /\ \A j \in 1..Len(Reported) :
          <<processed_data[j]>> = RowWithWorkingTemplate(OrderOf(j))
    /\ (processed_data # <<>> /\ ~render_raised) =>
          ret_main = MainName /\ IsPermutationOf(main_rows, processed_data)

MainEnded == mpc \in {"done", "exited"}

\* C8: when writing or styling the main file raises, the builder returns no
\* main file and nothing escapes it; main() then sends no e-mail and ends
\* the run in the ordinary way
C8_RenderFailureIsNullResult ==
    /\ (pc = "done" /\ render_raised) => ret_main = "None"
    /\ m_render_raised =>
          (excel_file = "None" /\ MainEnded /\ emails_sent = 0 /\ ~aborted)
    /\ (MainEnded /\ excel_file = "None") => emails_sent = 0

C8_Witness ==
    /\ mpc = "done"
    /\ m_render_raised
    /\ Len(m_rows) = 2
    /\ email_env = EnvOk

\* C9: a template file that was filled and saved is returned whether or not a
\* main report was produced, and a main report that was produced is returned
\* whatever happened to the template
C9_ArtifactsIndependent ==
    pc = "done" =>
        /\ (tpl_fault = "ok" /\ sheet # <<>>) => ret_extra = <<templated_output_filename>>
        /\ (processed_data # <<>> /\ ~render_raised) => ret_main = MainName

\* ---- fetch failures
\* C10 as claimed: a page request that raises or answers with something that
\* is no sequence leaves the run without report and without e-mail
C10_AsClaimed ==
    (MainEnded /\ fetch_error \in {"raised", "nonlist"})
        => (excel_file = "None" /\ emails_sent = 0)

\* C10 amended: a page request that raises aborts the run, with no report and
\* no e-mail whatever earlier pages returned; an answer that is no sequence
\* ends the pagination and the run goes on with the orders received
C10_FetchExceptionAborts ==
    /\ fetch_error = "raised" =>
          (aborted /\ MainEnded /\ excel_file = "None" /\ m_rows = <<>>
           /\ emails_sent = 0)
    /\ fetch_error = "nonlist" =>
          /\ ~aborted
          /\ mpc # "fetch"
          /\ (all_orders # <<>> /\ MainEnded /\ ~m_render_raised) => excel_file = MainName

C10_Witness ==
    /\ fetch_error = "raised"
    /\ Len(all_orders) = 1
    /\ Len(orders) = 2
    /\ mpc = "done"

\* ------------------------------------------------------------------- C11
\* C11: with missing order-source credentials the process exits non-zero
\* before any fetch, report or e-mail step; with missing e-mail credentials
\* the run still builds its report; and a run whose main workflow raised an
\* exception (a fetch failure) ends with a non-zero exit code.
C11_ExitStatus ==
    mpc = "exited" =>
        /\ woo_env = "missing" =>
               exit_code # 0 /\ page = 1 /\ all_orders = <<>> /\ excel_file = "None"
                             /\ emails_sent = 0
        /\ (woo_env = "ok" /\ email_env = EnvNoCredentials /\ all_orders # <<>>
             /\ ~aborted /\ ~m_render_raised) => excel_file # "None"
        /\ aborted => exit_code # 0

\* ------------------------------------------------------------------- C12
\* a setting is missing: no sender address, password, SMTP host or port, or
\* no recipient address at all
Incomplete(env) ==
    \/ \E f \in {"sender_email", "sender_password", "smtp_server"} : env[f] = <<>>
    \/ env.smtp_port = 0
    \/ \A f \in {"receiver_to", "receiver_cc"} : env[f] = <<>>

\* C12: when the credentials or the recipients are incomplete,
\* send_email_report returns normally without any SMTP operation (no
\* connection, no login, no send).
C12_NoSmtpWhenIncomplete ==
    Incomplete(email_env) =>
        /\ smtp_log = <<>> /\ emails_sent = 0
        /\ mpc \in {"sender", "returned", "email", "done"}

C12_Witness ==
    /\ mpc = "returned"
    /\ email_env.sender_email # <<>> /\ email_env.sender_password # <<>>
    /\ email_env.smtp_server # <<>> /\ email_env.smtp_port # 0
    /\ email_env.receiver_to = <<>> /\ email_env.receiver_cc = <<>>
    /\ smtp_log = <<>>

\* ------------------------------------------------------------------- C13
\* the rows of the orders that normalise, taken in the order given by f
RowsInOrder(f, k) ==
    RowWithWorkingTemplate(orders[f[k]])

RECURSIVE RowsFrom(_, _)
RowsFrom(f, k) ==
    IF k > Len(orders) THEN <<>> ELSE RowsInOrder(f, k) \o RowsFrom(f, k + 1)

\* C13: the rows of the main report are a permutation of the rows of the
\* orders that normalise, in non-decreasing order of the display date string,
\* whatever the order in which the source returned the orders.
C13_SortedByDisplayDate ==
    (pc = "done" /\ ret_main = MainName) =>
        /\ \A k \in 1..(Len(main_rows) - 1) :
              StrLeq(main_rows[k].date, main_rows[k + 1].date)
        /\ \A f \in Permutations(1..Len(orders)) :
              IsPermutationOf(main_rows, RowsFrom(f, 1))

C13_Witness ==
    /\ pc = "done"
    /\ ret_main = MainName
    /\ Len(processed_data) = 2
    /\ ~StrLeq(processed_data[1].date, processed_data[2].date)
    /\ main_rows = <<processed_data[2], processed_data[1]>>

\* ------------------------------------------------------------------- C14
OrderNumberKeys == {"_wc_order_number", "_order_number"}

\* the positions of the metadata entries that carry a custom order number
NumberEntries(order) ==
    {k \in 1..Len(order.meta_data) : order.meta_data[k].key \in OrderNumberKeys}

FirstOf(S) == CHOOSE k \in S : \A j \in S : k <= j

DisplayOrderNumber(order) ==
    IF NumberEntries(order) = {} THEN order.id
    ELSE order.meta_data[FirstOf(NumberEntries(order))].value

\* C14: the display order number is the value of the first metadata entry, in
\* metadata order, whose key is _wc_order_number or _order_number; an order
\* with neither key shows its internal id.
C14_DisplayOrderNumber ==
    InReporter =>
        \A j \in 1..Len(processed_data) :
            processed_data[j].order_number = DisplayOrderNumber(OrderOf(j))

C14_Witness ==
    /\ pc = "done"
    /\ Len(orders) = 1
    /\ Len(orders[1].meta_data) = 2
    /\ orders[1].meta_data[1].key = "_order_number"
    /\ orders[1].meta_data[2].key = "_wc_order_number"
    /\ Len(main_rows) = 1
    /\ main_rows[1].order_number = 900

\* ------------------------------------------------------------------- C15
\* the lengths of all the lines of all the cells of a column, title included
LineLengths(rows, col) ==
    {Len(l) : l \in UNION {{Lines(c)[n] : n \in 1..Len(Lines(c))} :
                               c \in {Header(col)} \cup {rows[k][col] : k \in 1..Len(rows)}}}

Longest(S) == CHOOSE m \in S : \A x \in S : m >= x

ClaimedWidth(rows, col) ==
    IF Longest(LineLengths(rows, col)) + Padding > MaxWidth THEN MaxWidth
    ELSE Longest(LineLengths(rows, col)) + Padding

\* C15: in the main report the width of every column is the length of the
\* longest single line of any cell of the column, every line of a multi-line
\* cell being measured, plus the padding, and at most 70.
C15_WidthByLongestLine ==
    /\ (pc = "done" /\ ret_main = MainName) =>
          \A c \in Columns : widths[c] = ClaimedWidth(main_rows, c)
    /\ (mpc \in {"email", "done", "exited"} /\ excel_file = MainName) =>
          \A c \in M_Columns : m_widths[c] = ClaimedWidth(m_rows, c)

\* ------------------------------------------------------------------- C16
\* the orders of the pages answered to the first n requests, in page order
RECURSIVE PagesUpTo(_)
PagesUpTo(n) == IF n = 0 THEN <<>> ELSE PagesUpTo(n - 1) \o requests[n].orders

\* the answer ends the pagination: an empty page, or not a sequence
EndsPagination(r) == r.shape = "nonlist" \/ (r.shape = "list" /\ r.orders = <<>>)

FetchReturned == mpc \in {"report", "email", "done", "exited"} /\ ~aborted /\ requests # <<>>

C16_PagesInOrder ==
    /\ \A k \in 1..Len(requests) :
          /\ requests[k].page = k
          /\ requests[k].per_page = 100
          /\ k < Len(requests) => ~EndsPagination(requests[k])
    /\ FetchReturned =>
          /\ EndsPagination(requests[Len(requests)])
          /\ all_orders = PagesUpTo(Len(requests) - 1)

\* C16: the fetch asks for the pages 1, 2, 3, ... with page size 100, stops at
\* the first page that is empty or not a sequence, returns the pages received
\* before that one, concatenated in page order, and comes to an end when the
\* source has no more pages of orders to give.
C16_Pagination == [](C16_PagesInOrder) /\ ((mpc = "fetch") ~> (mpc # "fetch"))

C16_Witness ==
    /\ FetchReturned
    /\ Len(requests) = 3
    /\ requests[1].orders # <<>>
    /\ requests[2].orders # <<>>
    /\ requests[3].shape = "nonlist"
    /\ all_orders = requests[1].orders \o requests[2].orders

\* ------------------------------------------------------------------- C17
\* C17: within one run the date in the names of the main report file and of
\* the template file, and the date in the subject of the e-mail, are the
\* display-calendar date of the day of the fetch window, also when midnight
\* passes between the fetch and the report or the e-mail.
C17_ReportDateIsWindowDate ==
    yesterday # NoDay =>
        /\ report_date_str # NoDate => report_date_str = JalaliDateStr(yesterday)
        /\ subject_date_str # NoDate => subject_date_str = JalaliDateStr(yesterday)

\* ------------------------------------------------------------------- C18
\* template rows of the orders among the first n that have a main row
RECURSIVE RowsOfReportedOrders(_)
RowsOfReportedOrders(n) ==
    IF n = 0 THEN 0
    ELSE (IF Individual(orders[n]) /\ ~Raises(orders[n]) THEN AllSurviving(orders[n])
          ELSE 0)
         + RowsOfReportedOrders(n - 1)

\* C18: an order whose normalisation raises leaves no row in the template
\* either: the rows of the template are those of the line items of the orders
\* that have a row in the main report.
C18_FailedOrderLeavesNoTemplateRow ==
    TemplateWritable => Len(sheet) = RowsOfReportedOrders(Handled)

====
